---- MODULE Spec2Model ----
(***************************************************************************)
(* Resistor Station, Portal M4 firmware: the electron-flow animation       *)
(* engine (portal-firmware/current_animation.py, class CurrentAnimation)   *)
(* as a state machine.                                                     *)
(*                                                                         *)
(* Numbers.  Python floats (voltage, resistance, amps, current,            *)
(* heat_intensity) are modelled as exact rationals [n, d] in lowest terms; *)
(* binary rounding of the float unit is not modelled.  Positions, phases,  *)
(* heats and lives are Python ints and are TLA+ integers.  Wall-clock time *)
(* (time.monotonic(), seconds) is counted in hundredths of a second.       *)
(*                                                                         *)
(* Frame sink.  matrix_display.bitmap is a WIDTH x HEIGHT array of palette *)
(* indices, bmp[x][y]; matrix_display.display.refresh is counted in        *)
(* `presented`.                                                            *)
(*                                                                         *)
(* update() is a straight-line sequence of frame stages; pc is the         *)
(* position inside update() ("ready" between calls).  The engine is        *)
(* single-threaded: no other operation runs while pc # "ready".            *)
(***************************************************************************)
EXTENDS Integers, Sequences, FiniteSets, TLC

\* ------------------------------------------------------------------------
\* Module-level constants of current_animation.py
\* ------------------------------------------------------------------------
WIDTH == 64
HEIGHT == 32
RES_X1 == 20
RES_X2 == 43
RES_Y1 == 4
RES_Y2 == 27
WIRE_Y1 == 13
WIRE_Y2 == 18
NUM_ELECTRONS == 20
MAX_HEAT_PARTICLES == 12
TRAIL_LENGTH == 2
SIN_SIZE == 629

\* idle_animation's throttle, 0.08 s, in hundredths of a second
IDLE_INTERVAL == 8

Electrons == 0 .. (NUM_ELECTRONS - 1)
HeatSlots == 0 .. (MAX_HEAT_PARTICLES - 1)
Xs == 0 .. (WIDTH - 1)
Ys == 0 .. (HEIGHT - 1)

\* ------------------------------------------------------------------------
\* Bounds of the model
\* ------------------------------------------------------------------------
\* update() calls explored under Spec
MaxTick == 2
\* wall-clock horizon (hundredths of a second) explored under Spec
MaxTime == 8
\* update() calls explored under SpecRun
MaxRunTick == 14
\* update() calls explored under SpecHot: the pool fills (24), drops spawns
\* (26..34) and reuses its first slot (36)
MaxHotTick == 37
\* clock values (hundredths of a second) explored under SpecIdle: 41 idle
\* intervals, enough for the marker to go once around the wire
MaxIdleTime == 328

\* update() calls and hundredths of a second explored under SpecHost
MaxHostTick == 2
MaxHostTime == 302

\* ------------------------------------------------------------------------
\* Float arithmetic as exact rationals
\* ------------------------------------------------------------------------
Abs(a) == IF a < 0 THEN -a ELSE a

RECURSIVE GCD(_, _)
GCD(a, b) == IF b = 0 THEN a ELSE GCD(b, a % b)

\* the float n/d (d # 0), in lowest terms with a positive denominator
Rat(n, d) ==
  LET s == IF d < 0 THEN -1 ELSE 1
      g == GCD(Abs(n), Abs(d))
  IN  [n |-> (s * n) \div g, d |-> (s * d) \div g]

RLt(a, b) == a.n * b.d < b.n * a.d
RLe(a, b) == a.n * b.d <= b.n * a.d
\* products are cross-reduced first so that intermediate values stay small
RMul(a, b) ==
  LET g1 == GCD(Abs(a.n), b.d)
      g2 == GCD(Abs(b.n), a.d)
  IN  Rat((a.n \div g1) * (b.n \div g2), (a.d \div g2) * (b.d \div g1))
RAdd(a, b) ==
  LET g == GCD(a.d, b.d)
  IN  Rat(a.n * (b.d \div g) + b.n * (a.d \div g), (a.d \div g) * b.d)
\* a / b for b # 0; every divisor the engine uses is a stored resistance
\* (>= 0.1) or an amps value above the epsilon of set_current
RDiv(a, b) == RMul(a, Rat(b.d, b.n))
RMin(a, b) == IF RLt(b, a) THEN b ELSE a
RMax(a, b) == IF RLt(a, b) THEN b ELSE a
\* int(a) for a >= 0
RInt(a) == a.n \div a.d
RNum(k) == Rat(k, 1)

\* _V_IN = 3.3
V_IN == Rat(33, 10)

sin_table ==
  <<
     100, 100, 101, 102, 103, 104, 105, 106, 107, 108, 109, 110, 111, 112, 113, 114, 115, 116, 117, 118,
     119, 120, 121, 122, 123, 124, 125, 126, 127, 128, 129, 130, 131, 132, 133, 134, 135, 136, 137, 138,
     138, 139, 140, 141, 142, 143, 144, 145, 146, 147, 147, 148, 149, 150, 151, 152, 153, 153, 154, 155,
     156, 157, 158, 158, 159, 160, 161, 162, 162, 163, 164, 165, 165, 166, 167, 168, 168, 169, 170, 171,
     171, 172, 173, 173, 174, 175, 175, 176, 177, 177, 178, 178, 179, 180, 180, 181, 181, 182, 183, 183,
     184, 184, 185, 185, 186, 186, 187, 187, 188, 188, 189, 189, 190, 190, 190, 191, 191, 192, 192, 192,
     193, 193, 193, 194, 194, 194, 195, 195, 195, 196, 196, 196, 196, 197, 197, 197, 197, 197, 198, 198,
     198, 198, 198, 199, 199, 199, 199, 199, 199, 199, 199, 199, 199, 199, 199, 199, 199, 199, 199, 199,
     199, 199, 199, 199, 199, 199, 199, 199, 199, 199, 199, 199, 198, 198, 198, 198, 198, 198, 197, 197,
     197, 197, 196, 196, 196, 196, 195, 195, 195, 194, 194, 194, 193, 193, 193, 192, 192, 192, 191, 191,
     190, 190, 190, 189, 189, 188, 188, 187, 187, 186, 186, 185, 185, 184, 184, 183, 183, 182, 182, 181,
     180, 180, 179, 179, 178, 177, 177, 176, 175, 175, 174, 173, 173, 172, 171, 171, 170, 169, 169, 168,
     167, 166, 166, 165, 164, 163, 163, 162, 161, 160, 159, 159, 158, 157, 156, 155, 154, 154, 153, 152,
     151, 150, 149, 148, 148, 147, 146, 145, 144, 143, 142, 141, 140, 140, 139, 138, 137, 136, 135, 134,
     133, 132, 131, 130, 129, 128, 127, 126, 125, 124, 123, 122, 121, 121, 120, 119, 118, 117, 116, 115,
     114, 113, 112, 111, 110, 109, 108, 107, 106, 105, 104, 103, 102, 101, 100, 100, 99, 98, 97, 96,
     95, 94, 93, 92, 91, 90, 89, 88, 87, 86, 85, 84, 83, 82, 81, 80, 79, 78, 77, 76,
     75, 74, 73, 72, 71, 70, 69, 68, 67, 66, 65, 64, 64, 63, 62, 61, 60, 59, 58, 57,
     56, 55, 54, 54, 53, 52, 51, 50, 49, 48, 48, 47, 46, 45, 44, 43, 43, 42, 41, 40,
     39, 39, 38, 37, 36, 35, 35, 34, 33, 32, 32, 31, 30, 30, 29, 28, 27, 27, 26, 25,
     25, 24, 24, 23, 22, 22, 21, 20, 20, 19, 19, 18, 18, 17, 16, 16, 15, 15, 14, 14,
     13, 13, 12, 12, 11, 11, 11, 10, 10, 9, 9, 8, 8, 8, 7, 7, 7, 6, 6, 6,
     5, 5, 5, 4, 4, 4, 4, 3, 3, 3, 3, 3, 2, 2, 2, 2, 2, 2, 1, 1,
     1, 1, 1, 1, 1, 1, 1, 1, 1, 1, 1, 1, 1, 1, 1, 1, 1, 1, 1, 1,
     1, 1, 1, 1, 1, 1, 2, 2, 2, 2, 2, 2, 3, 3, 3, 3, 4, 4, 4, 4,
     5, 5, 5, 6, 6, 6, 6, 7, 7, 8, 8, 8, 9, 9, 10, 10, 10, 11, 11, 12,
     12, 13, 13, 14, 14, 15, 15, 16, 16, 17, 17, 18, 18, 19, 20, 20, 21, 21, 22, 23,
     23, 24, 25, 25, 26, 26, 27, 28, 29, 29, 30, 31, 31, 32, 33, 34, 34, 35, 36, 37,
     37, 38, 39, 40, 41, 41, 42, 43, 44, 45, 45, 46, 47, 48, 49, 50, 51, 51, 52, 53,
     54, 55, 56, 57, 58, 59, 59, 60, 61, 62, 63, 64, 65, 66, 67, 68, 69, 70, 71, 72,
     73, 74, 74, 75, 76, 77, 78, 79, 80, 81, 82, 83, 84, 85, 86, 87, 88, 89, 90, 91,
     92, 93, 94, 95, 96, 97, 98, 99, 100
  >>

\* _fast_sin(phase_100): sin * 100 for a phase that is already * 100
fast_sin(phase_100) == sin_table[(phase_100 % SIN_SIZE) + 1] - 100

\* ------------------------------------------------------------------------
\* Pixel helpers
\* ------------------------------------------------------------------------
InBounds(x, y) == 0 <= x /\ x < WIDTH /\ 0 <= y /\ y < HEIGHT

\* _bmp.fill(0)
Blank == [x \in Xs |-> [y \in Ys |-> 0]]

\* _bmp[x, y] = c: the bitmap's own item assignment; outside the extents the
\* bitmap raises and the frame being drawn is lost (every pixel -1)
BitmapStore(b, x, y, c) ==
  IF InBounds(x, y) THEN [b EXCEPT ![x][y] = c]
  ELSE [i \in Xs |-> [j \in Ys |-> -1]]

\* _sp(x, y, c): set pixel with bounds check
sp(b, x, y, c) == IF InBounds(x, y) THEN BitmapStore(b, x, y, c) ELSE b

\* mutant: the bounds check is forgotten
spbUnchecked(b, x, y, c) ==
  IF InBounds(x, y) /\ c <= b[x][y] THEN b ELSE BitmapStore(b, x, y, c)

\* mutant: the brightness comparison is forgotten (a plain _sp)
spbOverwrite(b, x, y, c) ==
  IF InBounds(x, y) THEN BitmapStore(b, x, y, c) ELSE b

\* _spb(x, y, c): set pixel only if the new index is higher than the current one
spb(b, x, y, c) ==
  IF InBounds(x, y) /\ c > b[x][y] THEN BitmapStore(b, x, y, c) ELSE b

\* ------------------------------------------------------------------------
\* State
\* ------------------------------------------------------------------------
VARIABLES
  voltage, resistance, active,          \* electrical state
  ex, ey, ebase_y, ephase, eheat,       \* electron arrays (pixel * 100)
  hpx, hpy, hpvx, hpvy, hplife,         \* heat particle arrays
  tick, heat_spawn_ctr,                 \* timing
  idle_x, idle_last,                    \* idle state
  bmp,                                  \* matrix_display.bitmap
  now,                                  \* time.monotonic()
  pc,                                   \* position inside update()
  presented,                            \* display refreshes made by the latest call
  last_set,                             \* the latest setter call and its arguments
  called,                               \* the latest public method called
  screens, active_screen, current_screen, \* UIManager: _screens, _active, current_screen
  nav_rects,                            \* UIManager: _nav_rects has been built
  ui_calls, ui_raised,                  \* calls made and exception raised by the latest UIManager call
  input_buffer, calculated,             \* ScreenCalculator: input_buffer, a result is stored
  rx_buf, last_received_time,           \* SerialReceiver: _buf, last_received_time
  rx_acc, rx_ret,                       \* bytes examined and packet returned by the latest read_packet()
  host_pc, host_now, packet,            \* firmware main loop: position, now, packet
  host_state, last_packet_t,            \* firmware main loop: _state, _last_packet_t
  invoked                               \* engine methods invoked by the current loop iteration

elec == <<ex, ey, ebase_y, ephase, eheat>>
heat == <<hpx, hpy, hpvx, hpvy, hplife>>
params == <<voltage, resistance, active>>
idle == <<idle_x, idle_last>>
engine == <<voltage, resistance, active, ex, ey, ebase_y, ephase, eheat,
            hpx, hpy, hpvx, hpvy, hplife, tick, heat_spawn_ctr,
            idle_x, idle_last, bmp, now, pc, presented, last_set,
            called>>
ui == <<screens, active_screen, current_screen, nav_rects, ui_calls,
        ui_raised>>
calculator == <<input_buffer, calculated>>
receiver == <<rx_buf, last_received_time, rx_acc, rx_ret>>
host == <<host_pc, host_now, packet, host_state, last_packet_t, invoked>>
vars == <<engine, ui, calculator, receiver, host>>

\* the rest of the station during a call of the engine: the screens, the
\* calculator and the receiver are not touched; before the firmware's main
\* loop is entered the loop's variables are not touched either, afterwards
\* the loop's own step says how they move
Elsewhere ==
  /\ UNCHANGED <<ui, calculator, receiver>>
  /\ IF host_pc = "off" THEN UNCHANGED host ELSE TRUE

\* current = self._voltage / self._resistance
Current == RDiv(voltage, resistance)

\* heat_intensity = min(1.0, current * 0.35)
HeatIntensity == RMin(RNum(1), RMul(Current, Rat(35, 100)))

\* ------------------------------------------------------------------------
\* Construction
\* ------------------------------------------------------------------------
\* The constructor's random draws: a baseline offset randint(0, 600) and a
\* phase randint(0, 628) per electron.
InitDraws ==
  { [base  |-> [i \in Electrons |-> (b0 + 157 * i) % 601],
     phase |-> [i \in Electrons |-> (p0 + 97 * i) % 629]]
    : b0 \in {0, 600}, p0 \in {628} }

\* the draws explored under Spec
SpecInitDraws == { d \in InitDraws : d.base[0] = 0 }

InitWith(draws) ==
  \E d \in draws :
    /\ voltage = V_IN
    /\ resistance = RNum(330)
    /\ active = FALSE
    /\ ex = [i \in Electrons |-> i * ((WIDTH * 100) \div NUM_ELECTRONS)]
    /\ ey = [i \in Electrons |-> WIRE_Y1 * 100 + d.base[i]]
    /\ ebase_y = [i \in Electrons |-> WIRE_Y1 * 100 + d.base[i]]
    /\ ephase = d.phase
    /\ eheat = [i \in Electrons |-> 0]
    /\ hpx = [i \in HeatSlots |-> 0]
    /\ hpy = [i \in HeatSlots |-> 0]
    /\ hpvx = [i \in HeatSlots |-> 0]
    /\ hpvy = [i \in HeatSlots |-> 0]
    /\ hplife = [i \in HeatSlots |-> 0]
    /\ tick = 0
    /\ heat_spawn_ctr = 0
    /\ idle_x = 0
    /\ idle_last = 0
    /\ bmp = Blank
    /\ now = 0
    /\ pc = "ready"
    /\ presented = 0
    /\ last_set = [op |-> "none"]
    /\ called = "none"
    /\ screens = [n \in {} |-> "s1"]
    /\ active_screen = "None"
    /\ current_screen = "live_lab"
    /\ nav_rects = FALSE
    /\ ui_calls = <<>>
    /\ ui_raised = "none"
    /\ input_buffer = <<>>
    /\ calculated = FALSE
    /\ rx_buf = <<>>
    /\ last_received_time = -1
    /\ rx_acc = <<>>
    /\ rx_ret = 0
    /\ host_pc = "off"
    /\ host_now = 0
    /\ packet = 0
    /\ host_state = "IDLE"
    /\ last_packet_t = 0
    /\ invoked = <<>>

\* ------------------------------------------------------------------------
\* set_params / set_current
\* ------------------------------------------------------------------------
\* mutant: the upper clamp of the voltage is forgotten
ClampVoltageNoCap(v) == IF RLt(v, RNum(0)) THEN RNum(0) ELSE v

\* set_params's clamp of voltage to [0.0, 15.0]
ClampVoltage(v) ==
  IF RLt(v, RNum(0)) THEN RNum(0)
  ELSE IF RLt(RNum(15), v) THEN RNum(15)
  ELSE v

\* mutant: the resistance floor is forgotten
ClampResistanceNoFloor(r) == r

\* set_params's floor of resistance at 0.1
ClampResistance(r) == IF RLt(r, Rat(1, 10)) THEN Rat(1, 10) ELSE r

\* mutant: the stored resistance never drops below the one already stored
SetParamsSticky(v, r) ==
  /\ pc = "ready"
  /\ voltage' = ClampVoltage(v)
  /\ resistance' = RMax(resistance, ClampResistance(r))
  /\ active' = RLt(RNum(0), ClampVoltage(v))
  /\ presented' = 0
  /\ last_set' = [op |-> "set_params", v |-> v, r |-> r]
  /\ called' = "set_params"
  /\ UNCHANGED <<elec, heat, tick, heat_spawn_ctr, idle, bmp, now, pc>>
  /\ Elsewhere

SetParams(v, r) ==
  /\ pc = "ready"
  /\ voltage' = ClampVoltage(v)
  /\ resistance' = ClampResistance(r)
  /\ active' = RLt(RNum(0), ClampVoltage(v))
  /\ presented' = 0
  /\ last_set' = [op |-> "set_params", v |-> v, r |-> r]
  /\ called' = "set_params"
  /\ UNCHANGED <<elec, heat, tick, heat_spawn_ctr, idle, bmp, now, pc>>
  /\ Elsewhere

\* mutant: the 0.5 A cap is forgotten
CurrentParamsNoCap(amps) ==
  LET a0 == IF RLt(amps, RNum(0)) THEN RNum(0) ELSE amps
  IN  IF RLt(a0, Rat(1, 100000))
        THEN <<V_IN, RNum(330000), FALSE>>
        ELSE <<V_IN, RDiv(V_IN, a0), TRUE>>

\* mutant: the epsilon test is <= instead of <
CurrentParamsInclusive(amps) ==
  LET a0 == IF RLt(amps, RNum(0)) THEN RNum(0) ELSE amps
      a1 == IF RLt(Rat(1, 2), a0) THEN Rat(1, 2) ELSE a0
  IN  IF RLe(a0, Rat(1, 100000))
        THEN <<V_IN, RNum(330000), FALSE>>
        ELSE <<V_IN, RDiv(V_IN, a1), TRUE>>

\* the (voltage, resistance, active) that set_current(amps) stores
CurrentParams(amps) ==
  LET a0 == IF RLt(amps, RNum(0)) THEN RNum(0) ELSE amps
      a1 == IF RLt(Rat(1, 2), a0) THEN Rat(1, 2) ELSE a0
  IN  IF RLt(a0, Rat(1, 100000))
        THEN <<V_IN, RNum(330000), FALSE>>
        ELSE <<V_IN, RDiv(V_IN, a1), TRUE>>

SetCurrent(amps) ==
  /\ pc = "ready"
  /\ voltage' = CurrentParams(amps)[1]
  /\ resistance' = CurrentParams(amps)[2]
  /\ active' = CurrentParams(amps)[3]
  /\ presented' = 0
  /\ last_set' = [op |-> "set_current", amps |-> amps]
  /\ called' = "set_current"
  /\ UNCHANGED <<elec, heat, tick, heat_spawn_ctr, idle, bmp, now, pc>>
  /\ Elsewhere

\* ------------------------------------------------------------------------
\* stop / idle_animation / the clock
\* ------------------------------------------------------------------------
\* mutant: the display refresh is forgotten
StopNoRefresh ==
  /\ pc = "ready"
  /\ bmp' = Blank
  /\ presented' = 0
  /\ active' = FALSE
  /\ called' = "stop"
  /\ UNCHANGED <<voltage, resistance, elec, heat, tick, heat_spawn_ctr,
                 idle, now, pc, last_set>>
  /\ Elsewhere

\* mutant: the engine is left active
StopKeepsActive ==
  /\ pc = "ready"
  /\ bmp' = Blank
  /\ presented' = 1
  /\ called' = "stop"
  /\ UNCHANGED <<params, elec, heat, tick, heat_spawn_ctr, idle, now, pc,
                 last_set>>
  /\ Elsewhere

\* mutant: stop() also rewinds the frame counter and the spawn counter
StopRewinds ==
  /\ pc = "ready"
  /\ bmp' = Blank
  /\ presented' = 1
  /\ active' = FALSE
  /\ called' = "stop"
  /\ tick' = 0
  /\ heat_spawn_ctr' = 0
  /\ UNCHANGED <<voltage, resistance, elec, heat, idle, now, pc, last_set>>
  /\ Elsewhere

Stop ==
  /\ pc = "ready"
  /\ bmp' = Blank
  /\ presented' = 1
  /\ active' = FALSE
  /\ called' = "stop"
  /\ UNCHANGED <<voltage, resistance, elec, heat, tick, heat_spawn_ctr,
                 idle, now, pc, last_set>>
  /\ Elsewhere

\* mutant: the marker walks through the resistor
IdleNextXNoSkip(x) == (x + 1) % WIDTH

\* the marker's next pixel x: one step, wrapping, jumping over the resistor
IdleNextX(x) ==
  LET nx == (x + 1) % WIDTH
  IN  IF RES_X1 <= nx /\ nx <= RES_X2 THEN RES_X2 + 1 ELSE nx

\* mutant: the throttle is forgotten
IdleThrottledNever == FALSE

\* whether idle_animation returns early: now - self._idle_last < 0.08
IdleThrottled == now - idle_last < IDLE_INTERVAL

IdleAnimation ==
  /\ pc = "ready"
  /\ IF IdleThrottled
       THEN /\ presented' = 0
            /\ UNCHANGED <<idle_last, idle_x, bmp>>
       ELSE LET py == (WIRE_Y1 + WIRE_Y2) \div 2
            IN  /\ idle_last' = now
                /\ idle_x' = IdleNextX(idle_x)
                /\ bmp' = sp(sp(bmp, idle_x, py, 0), IdleNextX(idle_x), py, 36)
                /\ presented' = 1
  /\ called' = "idle_animation"
  /\ UNCHANGED <<params, elec, heat, tick, heat_spawn_ctr, now, pc, last_set>>
  /\ Elsewhere

\* time passes between calls of the host loop
ClockSteps == {8}

AdvanceClock(maxTime) ==
  /\ pc = "ready"
  /\ \E dt \in ClockSteps : now + dt <= maxTime /\ now' = now + dt
  /\ UNCHANGED <<params, elec, heat, tick, heat_spawn_ctr, idle, bmp, pc,
                 presented, last_set, called>>
  /\ Elsewhere

\* ------------------------------------------------------------------------
\* update(): static scene
\* ------------------------------------------------------------------------
Min(a, b) == IF a < b THEN a ELSE b
Max(a, b) == IF a > b THEN a ELSE b

\* wires, skipping the resistor body's x range (direct writes)
DrawWires(b) ==
  [x \in Xs |-> [y \in Ys |->
    IF (x < RES_X1 \/ x > RES_X2) /\ WIRE_Y1 <= y /\ y <= WIRE_Y2
      THEN 36 ELSE b[x][y]]]

\* palette index of an interior body pixel: deterministic flicker per tick
BodyIndex(t, x, y, hi) ==
  IF RLt(Rat(1, 10), hi)
    THEN LET flicker_up == ((t + x * 3 + y * 7) % 11) > 5
             h0 == RInt(RMul(hi, RNum(100)))
             h100 == IF flicker_up THEN Min(100, h0 + 15) ELSE Max(0, h0 - 15)
         IN  IF h100 < 20 THEN 21
             ELSE IF h100 < 40 THEN 22
             ELSE IF h100 < 60 THEN 26
             ELSE IF h100 < 75 THEN 27
             ELSE IF h100 < 88 THEN 28
             ELSE 29
    ELSE 21

\* resistor body: edge 23, interior by BodyIndex (direct writes)
DrawBody(b, t, hi) ==
  [x \in Xs |-> [y \in Ys |->
    IF RES_X1 <= x /\ x <= RES_X2 /\ RES_Y1 <= y /\ y <= RES_Y2
      THEN IF x = RES_X1 \/ x = RES_X2 \/ y = RES_Y1 \/ y = RES_Y2
             THEN 23 ELSE BodyIndex(t, x, y, hi)
      ELSE b[x][y]]]

\* rounded caps on the sides of the body (_sp)
DrawCaps(b) ==
  [x \in Xs |-> [y \in Ys |->
    IF (x = RES_X1 - 1 \/ x = RES_X2 + 1) /\ RES_Y1 + 1 <= y /\ y <= RES_Y2 - 1
      THEN 24 ELSE b[x][y]]]

\* leads, two pixels each side (_sp)
DrawLeads(b) ==
  [x \in Xs |-> [y \in Ys |->
    IF x \in {RES_X1 - 1, RES_X1 - 2, RES_X2 + 1, RES_X2 + 2}
       /\ WIRE_Y1 <= y /\ y <= WIRE_Y2
      THEN 25 ELSE b[x][y]]]

\* polarity markers: + on the left, - on the right (_sp)
PolarityPixels ==
  { <<1, 15>>, <<2, 15>>, <<3, 15>>, <<2, 14>>, <<2, 16>>,
    <<60, 15>>, <<61, 15>>, <<62, 15>> }

DrawPolarity(b) ==
  [x \in Xs |-> [y \in Ys |->
    IF <<x, y>> \in PolarityPixels THEN 37 ELSE b[x][y]]]

\* _draw_static(tick, current, heat_intensity)
DrawStatic(b, t, hi) ==
  DrawPolarity(DrawLeads(DrawCaps(DrawBody(DrawWires(b), t, hi))))

\* ------------------------------------------------------------------------
\* update(): electrons
\* ------------------------------------------------------------------------
\* whether pixel x lies in the resistor span
InRes(px) == RES_X1 <= px /\ px <= RES_X2

\* speed (scaled * 100) inside and outside the resistor
Speed(in_res, cur) ==
  IF in_res
    THEN RInt(RMul(RAdd(Rat(5, 2), RMul(cur, Rat(6, 5))), RNum(100)))
    ELSE RInt(RMul(RAdd(RNum(6), RMul(cur, RNum(4))), RNum(100)))

\* mutant: the cap at 100 is forgotten
NextHeatNoCap(h, in_res) ==
  IF in_res THEN h + 8 ELSE IF h - 6 > 0 THEN h - 6 ELSE 0

\* heat after one step: +8 capped at 100 inside, -6 floored at 0 outside
NextHeat(h, in_res) ==
  IF in_res
    THEN IF h + 8 < 100 THEN h + 8 ELSE 100
    ELSE IF h - 6 > 0 THEN h - 6 ELSE 0

\* y after one step: wobble around the body centre (clamped) or the baseline
NextY(in_res, base, ph) ==
  IF in_res
    THEN LET center_y == ((WIRE_Y1 + WIRE_Y2) * 100) \div 2
             wobble == (fast_sin(ph) * 350) \div 100
             new_y == center_y + wobble
             lo == (RES_Y1 + 1) * 100
             hi == (RES_Y2 - 1) * 100
         IN  IF lo <= new_y /\ new_y <= hi THEN new_y
             ELSE IF new_y < lo THEN lo ELSE hi
    ELSE base + ((fast_sin(ph) * 70) \div 100)

\* blended colour 41-45 by heat band
BlendColor(heat_t) ==
  IF heat_t < 20 THEN 41
  ELSE IF heat_t < 40 THEN 42
  ELSE IF heat_t < 60 THEN 43
  ELSE IF heat_t < 80 THEN 44
  ELSE 45

\* bright core: hot bank above heat 50, cool bank otherwise
CoreColor(heat_t) ==
  IF heat_t > 50
    THEN 11 + Min(9, heat_t \div 12)
    ELSE 1 + Min(9, 5 + heat_t \div 20)

TrailColor(heat_t) == IF heat_t < 50 THEN 38 ELSE 39

\* the trail: for t in range(1, TRAIL_LENGTH + 1): _spb(draw_x - t, draw_y, c)
RECURSIVE DrawTrail(_, _, _, _, _)
DrawTrail(b, draw_x, draw_y, c, t) ==
  IF t > TRAIL_LENGTH THEN b
  ELSE DrawTrail(spb(b, draw_x - t, draw_y, c), draw_x, draw_y, c, t + 1)

\* whether an advanced x is off the right edge
OffRight(x) == x > (WIDTH + 8) * 100

\* _reset_electron(i, False)'s random draws: x = randint(-2400, 0), a
\* baseline offset randint(0, 600) and a phase randint(0, 628)
ElectronDraws ==
  { [x |-> -2400, base |-> 0, phase |-> 0],
    [x |-> 0, base |-> 600, phase |-> 628] }

\* one iteration of _update_electrons's loop, for electron i
ElectronStep(st, i, cur, d) ==
  LET in_res == InRes(st.ex[i] \div 100)
      h1 == NextHeat(st.eheat[i], in_res)
      x1 == st.ex[i] + (Speed(in_res, cur) \div 3)
      ph1 == (st.ephase[i] + 16) % SIN_SIZE
      y1 == NextY(in_res, st.ebase_y[i], ph1)
      reset == OffRight(x1)
      x2 == IF reset THEN d.x ELSE x1
      base2 == IF reset THEN WIRE_Y1 * 100 + d.base ELSE st.ebase_y[i]
      y2 == IF reset THEN base2 ELSE y1
      ph2 == IF reset THEN d.phase ELSE ph1
      h2 == IF reset THEN 0 ELSE h1
      draw_x == x2 \div 100
      draw_y == y2 \div 100
      b1 == spb(st.bmp, draw_x, draw_y, BlendColor(h2))
      b2 == spb(b1, draw_x, draw_y, CoreColor(h2))
      b3 == DrawTrail(b2, draw_x, draw_y, TrailColor(h2), 1)
  IN  [ex |-> [st.ex EXCEPT ![i] = x2],
       ey |-> [st.ey EXCEPT ![i] = y2],
       ebase_y |-> [st.ebase_y EXCEPT ![i] = base2],
       ephase |-> [st.ephase EXCEPT ![i] = ph2],
       eheat |-> [st.eheat EXCEPT ![i] = h2],
       bmp |-> b3]

\* _update_electrons(current): electrons i .. NUM_ELECTRONS-1 in index order
RECURSIVE UpdateElectrons(_, _, _, _)
UpdateElectrons(st, i, cur, d) ==
  IF i >= NUM_ELECTRONS THEN st
  ELSE UpdateElectrons(ElectronStep(st, i, cur, d), i + 1, cur, d)

\* ------------------------------------------------------------------------
\* update(): heat particles
\* ------------------------------------------------------------------------
\* _spawn_heat_particle's random draws: an x offset randint(0, 19), a side
\* randint(0, 1), a vertical speed of magnitude 120..300 directed away from
\* the body, and a horizontal jitter randint(-150, 150)
HeatDraws ==
  { [xoff |-> 0, side |-> 0, vy |-> 120, vx |-> -150],
    [xoff |-> RES_X2 - RES_X1 - 4, side |-> 1, vy |-> 300, vx |-> 150] }

\* the dead slots of a life array
DeadSlots(life) == { i \in HeatSlots : life[i] = 0 }

\* mutant: the scan runs from the top of the pool
FirstDeadFromTop(life) ==
  CHOOSE i \in DeadSlots(life) : \A j \in DeadSlots(life) : i >= j

\* the slot _spawn_heat_particle's scan stops at: the first dead one
FirstDead(life) == CHOOSE i \in DeadSlots(life) : \A j \in DeadSlots(life) : i <= j

\* _spawn_heat_particle()
SpawnHeatParticle(h, d) ==
  IF DeadSlots(h.hplife) = {} THEN h
  ELSE LET i == FirstDead(h.hplife)
       IN  [h EXCEPT
             !.hpx[i] = (RES_X1 + 2 + d.xoff) * 100,
             !.hpy[i] = IF d.side = 0 THEN (RES_Y1 - 1) * 100
                        ELSE (RES_Y2 + 1) * 100,
             !.hpvy[i] = IF d.side = 0 THEN -d.vy ELSE d.vy,
             !.hpvx[i] = d.vx,
             !.hplife[i] = 100]

\* spawn_rate = max(2, int(8 / max(0.3, current * 0.25)))
SpawnRate(cur) ==
  Max(2, RInt(RDiv(RNum(8), RMax(Rat(3, 10), RMul(cur, Rat(1, 4))))))

\* mutant: the threshold itself already spawns
SpawnAllowedInclusive(hi) == RLe(Rat(15, 100), hi)

\* whether heat_intensity is above the spawn threshold 0.15
SpawnAllowed(hi) == RLt(Rat(15, 100), hi)

\* the spawn logic at the head of _update_heat_particles
SpawnLogic(h, cur, hi, d) ==
  LET h1 == [h EXCEPT !.heat_spawn_ctr = h.heat_spawn_ctr + 1]
  IN  IF SpawnAllowed(hi) /\ h1.heat_spawn_ctr >= SpawnRate(cur)
        THEN SpawnHeatParticle([h1 EXCEPT !.heat_spawn_ctr = 0], d)
        ELSE h1

\* palette index 31..35 of a heat particle by remaining life
HeatColor(life) ==
  IF life > 80 THEN 31
  ELSE IF life > 60 THEN 32
  ELSE IF life > 40 THEN 33
  ELSE IF life > 20 THEN 34
  ELSE 35

\* mutant: an expired particle keeps its non-positive life
HeatStepNoFloor(h, i) ==
  IF h.hplife[i] = 0 THEN h
  ELSE LET x1 == h.hpx[i] + (h.hpvx[i] \div 3)
           y1 == h.hpy[i] + (h.hpvy[i] \div 3)
           life == h.hplife[i] - 3
       IN  IF life <= 0
             THEN [h EXCEPT !.hpx[i] = x1, !.hpy[i] = y1, !.hplife[i] = life]
             ELSE [h EXCEPT !.hpx[i] = x1, !.hpy[i] = y1, !.hplife[i] = life,
                            !.bmp = spb(h.bmp, x1 \div 100, y1 \div 100,
                                        HeatColor(life))]

\* one iteration of the update-and-draw loop, for slot i
HeatStep(h, i) ==
  IF h.hplife[i] = 0 THEN h
  ELSE LET x1 == h.hpx[i] + (h.hpvx[i] \div 3)
           y1 == h.hpy[i] + (h.hpvy[i] \div 3)
           life == h.hplife[i] - 3
       IN  IF life <= 0
             THEN [h EXCEPT !.hpx[i] = x1, !.hpy[i] = y1, !.hplife[i] = 0]
             ELSE [h EXCEPT !.hpx[i] = x1, !.hpy[i] = y1, !.hplife[i] = life,
                            !.bmp = spb(h.bmp, x1 \div 100, y1 \div 100,
                                        HeatColor(life))]

RECURSIVE HeatLoop(_, _)
HeatLoop(h, i) ==
  IF i >= MAX_HEAT_PARTICLES THEN h ELSE HeatLoop(HeatStep(h, i), i + 1)

\* _update_heat_particles(current, heat_intensity)
UpdateHeatParticles(h, cur, hi, d) == HeatLoop(SpawnLogic(h, cur, hi, d), 0)

\* ------------------------------------------------------------------------
\* update(): flow indicators
\* ------------------------------------------------------------------------
\* flow_phase = (tick * int(2 + current * 2)) % 10
FlowPhase(t, cur) == (t * RInt(RAdd(RNum(2), RMul(cur, RNum(2))))) % 10

\* whether column x carries an indicator dot
FlowColumn(x, t, cur) ==
  /\ ~(RES_X1 - 2 <= x /\ x <= RES_X2 + 2)
  /\ (x + FlowPhase(t, cur)) % 10 < 1

\* _draw_flow_indicators(tick, current): _spb of 40 above and below the wire
DrawFlowIndicators(b, t, cur) ==
  [x \in Xs |-> [y \in Ys |->
    IF FlowColumn(x, t, cur) /\ y \in {WIRE_Y1 - 1, WIRE_Y2 + 1} /\ 40 > b[x][y]
      THEN 40 ELSE b[x][y]]]

\* ------------------------------------------------------------------------
\* update(): the frame stages in program order
\* ------------------------------------------------------------------------
\* update() on an inactive engine: returns at once
UpdateInactive ==
  /\ pc = "ready"
  /\ ~active
  /\ presented' = 0
  /\ called' = "update"
  /\ UNCHANGED <<params, elec, heat, tick, heat_spawn_ctr, idle, bmp, now, pc,
                 last_set>>
  /\ Elsewhere

\* mutant: the early return of an inactive engine is forgotten
UpdateBeginUnguarded(maxTick) ==
  /\ pc = "ready"
  /\ tick < maxTick
  /\ tick' = tick + 1
  /\ bmp' = Blank
  /\ pc' = "static"
  /\ presented' = 0
  /\ called' = "update"
  /\ UNCHANGED <<params, elec, heat, heat_spawn_ctr, idle, now, last_set>>
  /\ Elsewhere

\* mutant: the bitmap is not cleared, the previous frame shows through
UpdateBeginNoClear(maxTick) ==
  /\ pc = "ready"
  /\ active
  /\ tick < maxTick
  /\ tick' = tick + 1
  /\ pc' = "static"
  /\ presented' = 0
  /\ called' = "update"
  /\ UNCHANGED <<params, elec, heat, heat_spawn_ctr, idle, bmp, now, last_set>>
  /\ Elsewhere

\* update() on an active engine: current and heat_intensity are computed,
\* tick is incremented and the bitmap is cleared
UpdateBegin(maxTick) ==
  /\ pc = "ready"
  /\ active
  /\ tick < maxTick
  /\ tick' = tick + 1
  /\ bmp' = Blank
  /\ pc' = "static"
  /\ presented' = 0
  /\ called' = "update"
  /\ UNCHANGED <<params, elec, heat, heat_spawn_ctr, idle, now, last_set>>
  /\ Elsewhere

StageStatic ==
  /\ pc = "static"
  /\ bmp' = DrawStatic(bmp, tick, HeatIntensity)
  /\ pc' = "electrons"
  /\ UNCHANGED <<params, elec, heat, tick, heat_spawn_ctr, idle, now,
                 presented, last_set, called>>
  /\ Elsewhere

StageElectrons(draws) ==
  /\ pc = "electrons"
  /\ \E d \in draws :
       LET st == UpdateElectrons(
                   [ex |-> ex, ey |-> ey, ebase_y |-> ebase_y,
                    ephase |-> ephase, eheat |-> eheat, bmp |-> bmp],
                   0, Current, d)
       IN  /\ ex' = st.ex
           /\ ey' = st.ey
           /\ ebase_y' = st.ebase_y
           /\ ephase' = st.ephase
           /\ eheat' = st.eheat
           /\ bmp' = st.bmp
  /\ pc' = "heat"
  /\ UNCHANGED <<params, heat, tick, heat_spawn_ctr, idle, now, presented,
                 last_set, called>>
  /\ Elsewhere

StageHeat(draws) ==
  /\ pc = "heat"
  /\ \E d \in draws :
       LET h == UpdateHeatParticles(
                  [hpx |-> hpx, hpy |-> hpy, hpvx |-> hpvx, hpvy |-> hpvy,
                   hplife |-> hplife, heat_spawn_ctr |-> heat_spawn_ctr,
                   bmp |-> bmp],
                  Current, HeatIntensity, d)
       IN  /\ hpx' = h.hpx
           /\ hpy' = h.hpy
           /\ hpvx' = h.hpvx
           /\ hpvy' = h.hpvy
           /\ hplife' = h.hplife
           /\ heat_spawn_ctr' = h.heat_spawn_ctr
           /\ bmp' = h.bmp
  /\ pc' = "flow"
  /\ UNCHANGED <<params, elec, tick, idle, now, presented, last_set, called>>
  /\ Elsewhere

\* mutant: update() returns after the flow indicators, without the refresh
StageFlowNoRefresh ==
  /\ pc = "flow"
  /\ bmp' = DrawFlowIndicators(bmp, tick, Current)
  /\ pc' = "ready"
  /\ UNCHANGED <<params, elec, heat, tick, heat_spawn_ctr, idle, now,
                 presented, last_set, called>>
  /\ Elsewhere

StageFlow ==
  /\ pc = "flow"
  /\ bmp' = DrawFlowIndicators(bmp, tick, Current)
  /\ pc' = "refresh"
  /\ UNCHANGED <<params, elec, heat, tick, heat_spawn_ctr, idle, now,
                 presented, last_set, called>>
  /\ Elsewhere

\* _dsp.refresh(minimum_frames_per_second=0), the last statement of update()
StageRefresh ==
  /\ pc = "refresh"
  /\ presented' = presented + 1
  /\ pc' = "ready"
  /\ UNCHANGED <<params, elec, heat, tick, heat_spawn_ctr, idle, bmp, now,
                 last_set, called>>
  /\ Elsewhere

\* ------------------------------------------------------------------------
\* Specifications
\* ------------------------------------------------------------------------
\* arguments of set_params: negative, zero, nominal and very large values
ParamInputs ==
  { <<RNum(-1), RNum(-1)>>,
    <<RNum(0), RNum(1000000)>>,
    <<V_IN, RNum(0)>>,
    <<RNum(1000), RNum(1000000)>> }

\* arguments of set_current: negative, below, at and above the epsilon, and
\* above the 0.5 A cap
AmpsInputs ==
  { RNum(-1), Rat(5, 1000000), Rat(1, 100000), Rat(33, 1000), RNum(2) }

Next ==
  \/ \E p \in ParamInputs : SetParams(p[1], p[2])
  \/ \E a \in AmpsInputs : SetCurrent(a)
  \/ UpdateInactive
  \/ UpdateBegin(MaxTick)
  \/ StageStatic
  \/ StageElectrons(ElectronDraws)
  \/ StageHeat(HeatDraws)
  \/ StageFlow
  \/ StageRefresh
  \/ IdleAnimation
  \/ Stop
  \/ AdvanceClock(MaxTime)

Init == InitWith(SpecInitDraws)

Spec == Init /\ [][Next]_vars

\* A sustained run: the host pushes one measurement (15 V across 7.5 ohm,
\* 2 A) and calls update() every loop iteration.
RunParams == { <<RNum(15), Rat(15, 2)>> }

NextRun ==
  \/ \E p \in RunParams : SetParams(p[1], p[2])
  \/ UpdateBegin(MaxRunTick)
  \/ StageStatic
  \/ StageElectrons(ElectronDraws)
  \/ StageHeat(HeatDraws)
  \/ StageFlow
  \/ StageRefresh

InitRun == InitWith(InitDraws)

SpecRun == InitRun /\ [][NextRun]_vars

\* ------------------------------------------------------------------------
\* Claims
\* ------------------------------------------------------------------------
\* a step of set_params / set_current with some explored argument
SetParamsStep == \E p \in ParamInputs : SetParams(p[1], p[2])
SetCurrentStep == \E a \in AmpsInputs : SetCurrent(a)

\* C1: in every reachable state 0 <= voltage <= 15 and resistance >= 0.1, so
\* the division in update() has a non-zero divisor, the derived current is
\* >= 0 and heat_intensity lies in [0, 1].
C1_ParamsInRange ==
  /\ RLe(RNum(0), voltage)
  /\ RLe(voltage, RNum(15))
  /\ RLe(Rat(1, 10), resistance)
  /\ resistance.n # 0
  /\ RLe(RNum(0), Current)
  /\ RLe(RNum(0), HeatIntensity)
  /\ RLe(HeatIntensity, RNum(1))

\* C1 witness: set_params(3.3, 0) was floored to 0.1 ohm and a frame has been
\* rendered with the resulting 33 A, heat_intensity saturated at 1.
C1_Witness ==
  /\ last_set = [op |-> "set_params", v |-> V_IN, r |-> RNum(0)]
  /\ called = "update"
  /\ pc = "ready"
  /\ presented = 1
  /\ resistance = Rat(1, 10)
  /\ Current = RNum(33)
  /\ HeatIntensity = RNum(1)

\* C2: for every input pair (v, r), set_params(v, r) can be taken and leaves
\* voltage = min(max(v, 0), 15), resistance = max(r, 0.1) and
\* active = (clamped voltage > 0).
C2_SetParamsClamps ==
  /\ [](pc = "ready" => \A p \in ParamInputs : ENABLED SetParams(p[1], p[2]))
  /\ [][\A p \in ParamInputs :
          SetParams(p[1], p[2]) =>
            /\ voltage' = RMin(RMax(p[1], RNum(0)), RNum(15))
            /\ resistance' = RMax(p[2], Rat(1, 10))
            /\ active' = RLt(RNum(0), RMin(RMax(p[1], RNum(0)), RNum(15)))]_vars

\* C2 witness: set_params(1000, 1000000) has run: voltage capped at 15 V,
\* the very large resistance kept, engine active.
C2_Witness ==
  /\ called = "set_params"
  /\ last_set = [op |-> "set_params", v |-> RNum(1000), r |-> RNum(1000000)]
  /\ voltage = RNum(15)
  /\ resistance = RNum(1000000)
  /\ active

C4_Original ==
  [][/\ (~active /\ active') =>
          ((SetParamsStep \/ SetCurrentStep) /\ RLt(RNum(0), voltage'))
     /\ (active /\ ~active') => Stop]_vars

\* C4 (amended): active turns true only by a setter call that leaves
\* voltage > 0; it turns false only by stop(), by set_params with a voltage
\* argument <= 0 (clamped voltage 0), or by set_current with amps < 0.00001.
C4_Amended ==
  [][/\ (~active /\ active') =>
          ((SetParamsStep \/ SetCurrentStep) /\ RLt(RNum(0), voltage'))
     /\ (active /\ ~active') =>
          \/ Stop
          \/ \E p \in ParamInputs :
               SetParams(p[1], p[2]) /\ RLe(p[1], RNum(0))
          \/ \E a \in AmpsInputs :
               SetCurrent(a) /\ RLt(a, Rat(1, 100000))]_vars

\* C4 witness: the frame of an active update is still on the display (no
\* stop() since) and set_params with voltage 0 has deactivated the engine.
C4_Witness ==
  /\ called = "set_params"
  /\ voltage = RNum(0)
  /\ ~active
  /\ tick > 0
  /\ bmp[0][WIRE_Y1] = 36

\* C5: update() on an inactive engine changes nothing: tick, electrons, heat
\* particles, spawn counter, idle state, electrical parameters and every
\* pixel are unchanged, no refresh is made and the call has returned.
C5_InactiveUpdateNoOp ==
  [][(~active /\ (UpdateInactive \/ UpdateBegin(MaxTick))) =>
        /\ UNCHANGED <<tick, elec, heat, heat_spawn_ctr, idle, params, bmp>>
        /\ presented' = 0
        /\ pc' = "ready"]_vars

\* C5 witness: update() was the latest call, returned without a refresh on an
\* inactive engine, and the earlier frame and tick are still there.
C5_Witness ==
  /\ called = "update"
  /\ pc = "ready"
  /\ presented = 0
  /\ ~active
  /\ tick > 0
  /\ bmp[0][WIRE_Y1] = 36

\* the order of the frame stages inside update()
StageOrder ==
  { <<"static", "electrons">>, <<"electrons", "heat">>, <<"heat", "flow">>,
    <<"flow", "refresh">>, <<"refresh", "ready">> }

\* C6: an update() on an active engine increments tick by exactly 1 and
\* clears the bitmap, then runs static, electrons, heat, flow, refresh in
\* that order, each once (each stage touching only its own state) with the
\* refresh last; tick never decreases and changes only at the start of an
\* update().
C6_TickAndStageOrder ==
  [][/\ tick' >= tick
     /\ tick' # tick => (pc = "ready" /\ active /\ pc' = "static")
     /\ (pc = "ready" /\ pc' # "ready") =>
          (active /\ tick' = tick + 1 /\ pc' = "static" /\ bmp' = Blank
           /\ presented' = 0 /\ UNCHANGED <<elec, heat, heat_spawn_ctr>>)
     /\ pc # "ready" => <<pc, pc'>> \in StageOrder
     /\ pc \in {"static", "flow"} =>
          UNCHANGED <<elec, heat, heat_spawn_ctr, presented>>
     /\ pc = "electrons" => UNCHANGED <<heat, heat_spawn_ctr, presented>>
     /\ pc = "heat" =>
          (heat_spawn_ctr' # heat_spawn_ctr /\ UNCHANGED <<elec, presented>>)
     /\ pc = "refresh" => (presented' = presented + 1 /\ UNCHANGED bmp)]_vars

\* C6 witness: two complete frames have been rendered and presented.
C6_Witness ==
  /\ called = "update"
  /\ pc = "ready"
  /\ presented = 1
  /\ tick = 2

\* C7 (as stated): every completed update(), idle_animation() and stop() has
\* made exactly one display refresh.
C7_Original ==
  (pc = "ready" /\ called \in {"update", "idle_animation", "stop"})
    => presented = 1

\* C7 (amended): exactly one refresh per update() on an active engine, per
\* idle_animation() that is not throttled and per stop(); none per update()
\* on an inactive engine and per throttled idle_animation().
C7_Amended ==
  [][/\ Stop => presented' = 1
     /\ IdleAnimation => presented' = (IF IdleThrottled THEN 0 ELSE 1)
     /\ UpdateInactive => presented' = 0
     /\ UpdateBegin(MaxTick) => presented' = 0
     /\ pc \in {"static", "electrons", "heat", "flow"} =>
          (presented' = 0 /\ pc' # "ready")
     /\ pc = "refresh" => (presented' = 1 /\ pc' = "ready")]_vars

\* C7 witness: after an accepted idle step, a throttled idle_animation() call
\* has returned without a refresh.
C7_Witness ==
  /\ called = "idle_animation"
  /\ presented = 0
  /\ idle_x = 1
  /\ bmp[1][(WIRE_Y1 + WIRE_Y2) \div 2] = 36

\* C8: after stop() every pixel is 0 and active is false, and a second stop()
\* changes nothing at all.
C8_StopBlanksAndIdempotent ==
  /\ [](called = "stop" =>
          (\A x \in Xs : \A y \in Ys : bmp[x][y] = 0) /\ ~active)
  /\ [][(called = "stop" /\ Stop) => UNCHANGED vars]_vars

\* C8 witness: stop() was called after two rendered frames.
C8_Witness ==
  /\ called = "stop"
  /\ tick = 2
  /\ bmp = Blank
  /\ ~active
  /\ presented = 1

\* C9: the stored voltage and resistance are those the latest setter call
\* alone produces (the constructor's when there was none), and no step other
\* than a setter call changes them.
C9_LastWriteWins ==
  /\ [](CASE last_set.op = "none" ->
               voltage = Rat(33, 10) /\ resistance = RNum(330)
          [] last_set.op = "set_params" ->
               /\ voltage = RMin(RMax(last_set.v, RNum(0)), RNum(15))
               /\ resistance = RMax(last_set.r, Rat(1, 10))
          [] last_set.op = "set_current" ->
               /\ voltage = Rat(33, 10)
               /\ resistance =
                    IF RLt(last_set.amps, Rat(1, 100000)) THEN RNum(330000)
                    ELSE RDiv(Rat(33, 10), RMin(last_set.amps, Rat(1, 2))))
  /\ [][~(SetParamsStep \/ SetCurrentStep) =>
          UNCHANGED <<voltage, resistance>>]_vars

\* C9 witness: set_current(0.033) overwrote earlier parameters, two frames
\* were rendered and stop() was called; resistance is still 100.
C9_Witness ==
  /\ last_set = [op |-> "set_current", amps |-> Rat(33, 1000)]
  /\ called = "stop"
  /\ tick = 2
  /\ resistance = RNum(100)
  /\ voltage = Rat(33, 10)

\* C10: every electron's heat stays within 0..100; the electron stage sets it
\* to 0 on a respawn (x moved back), and otherwise raises it by 8 capped at
\* 100 when the pixel x before the move is in [20, 43] and lowers it by 6
\* floored at 0 when it is not; no other step changes it.
C10_ElectronHeat ==
  /\ [](\A i \in Electrons : 0 <= eheat[i] /\ eheat[i] <= 100)
  /\ [][/\ pc # "electrons" => eheat' = eheat
        /\ pc = "electrons" =>
             \A i \in Electrons :
               eheat'[i] =
                 IF ex'[i] < ex[i] THEN 0
                 ELSE IF 20 <= ex[i] \div 100 /\ ex[i] \div 100 <= 43
                   THEN (IF eheat[i] + 8 > 100 THEN 100 ELSE eheat[i] + 8)
                   ELSE (IF eheat[i] - 6 < 0 THEN 0 ELSE eheat[i] - 6)]_vars

\* C10 witness: one electron has reached the cap of 100 inside the resistor,
\* another is cooling outside it and a third has been respawned with heat 0.
C10_Witness ==
  /\ \E i \in Electrons : eheat[i] = 100 /\ InRes(ex[i] \div 100)
  /\ \E i \in Electrons :
       eheat[i] > 0 /\ eheat[i] < 100 /\ ~InRes(ex[i] \div 100)
  /\ \E i \in Electrons : eheat[i] = 0 /\ ex[i] <= 0

\* ------------------------------------------------------------------------
\* Electron respawn
\* ------------------------------------------------------------------------
\* the x an electron is advanced to by one update, before the edge test
AdvancedX(i) == ex[i] + (Speed(InRes(ex[i] \div 100), Current) \div 3)

\* C11: whenever an electron's advanced x exceeds (WIDTH + 8) * 100 during an
\* update it is respawned within the same update at an off-screen x (pixel
\* x < 0) with a baseline inside the wire band, a phase in 0..628 and heat 0;
\* after the electron stage every electron has x <= 7200 and the pool still
\* has its 20 particles.
C11_Respawn ==
  [][pc = "electrons" =>
       /\ DOMAIN ex' = Electrons
       /\ \A i \in Electrons :
            /\ ex'[i] <= (WIDTH + 8) * 100
            /\ OffRight(AdvancedX(i)) =>
                 /\ ex'[i] \div 100 < 0
                 /\ WIRE_Y1 <= ebase_y'[i] \div 100
                 /\ ebase_y'[i] \div 100 <= WIRE_Y2
                 /\ ey'[i] = ebase_y'[i]
                 /\ ephase'[i] \in 0 .. 628
                 /\ eheat'[i] = 0]_vars

\* ------------------------------------------------------------------------
\* A measurement session at the limits of set_params
\* ------------------------------------------------------------------------
\* 15 V across 0.1 ohm: 150 A, heat_intensity 1.0, spawn_rate 2
HotParams == <<RNum(15), Rat(1, 10)>>

\* 3 V across 7 ohm: heat_intensity exactly at the spawn threshold 0.15
CoolParams == <<RNum(3), RNum(7)>>

\* the draws explored in a session: electrons respawn at the far left, heat
\* particles leave the bottom edge straight down at the lowest speed
HotElectronDraws == { d \in ElectronDraws : d.x = -2400 }

HotHeatDraws == { [xoff |-> 0, side |-> 1, vy |-> 120, vx |-> 0] }

\* 15 V across 5 ohm: 3 A, heat_intensity 1.0, spawn_rate 10
WarmParams == <<RNum(15), RNum(5)>>

\* the host pushes a maximum-heat measurement to an engine that is not
\* running
StartHot ==
  ~active /\ \E p \in {HotParams, WarmParams} : SetParams(p[1], p[2])

\* the host pushes the cool measurement
SetCool == SetParams(CoolParams[1], CoolParams[2])

\* one step of an update() call of the session
UpdateHot ==
  \/ UpdateBegin(MaxHotTick)
  \/ StageStatic
  \/ StageElectrons(HotElectronDraws)
  \/ StageHeat(HotHeatDraws)
  \/ StageFlow
  \/ StageRefresh

NextHot ==
  \/ StartHot
  \/ SetCool
  \/ UpdateHot

SpecHot == Init /\ [][NextHot]_vars

\* the host loop calls update() on every iteration while a measurement is
\* active, and update() runs to completion
\* expressed on the position inside update(), which only UpdateHot's steps
\* change
UpdateAdvances ==
  \/ pc = "ready" /\ active /\ tick < MaxHotTick /\ pc' = "static"
  \/ pc = "static" /\ pc' = "electrons"
  \/ pc = "electrons" /\ pc' = "heat"
  \/ pc = "heat" /\ pc' = "flow"
  \/ pc = "flow" /\ pc' = "refresh"
  \/ pc = "refresh" /\ pc' = "ready"

SpecHotFair == SpecHot /\ WF_pc(UpdateAdvances)

\* electron i is on a presented frame inside the visible columns
Visible(i) == pc = "refresh" /\ ex[i] \div 100 \in 0 .. WIDTH - 1

\* an active engine between two calls, with updates still to come
UpdatesAhead == active /\ pc = "ready" /\ 2 * tick <= MaxHotTick

AliveSlots == { i \in HeatSlots : hplife[i] # 0 }

\* C13: the heat pool always has exactly 12 slots, every slot's life is 0
\* (dead) or within 1..100 (alive), and at most 12 particles are alive.
C13_HeatPoolBounded ==
  /\ DOMAIN hplife = HeatSlots
  /\ DOMAIN hpx = HeatSlots
  /\ DOMAIN hpy = HeatSlots
  /\ DOMAIN hpvx = HeatSlots
  /\ DOMAIN hpvy = HeatSlots
  /\ Cardinality(HeatSlots) = MAX_HEAT_PARTICLES
  /\ \A i \in HeatSlots : hplife[i] \in 0 .. 100
  /\ Cardinality(AliveSlots) <= MAX_HEAT_PARTICLES

\* the pool is full, and a slot that was alive has expired and been reused
C13_Witness ==
  /\ AliveSlots = HeatSlots
  /\ hplife[0] > hplife[MAX_HEAT_PARTICLES - 1]

\* whether this update's spawn logic calls _spawn_heat_particle
SpawnDue ==
  SpawnAllowed(HeatIntensity) /\ heat_spawn_ctr + 1 >= SpawnRate(Current)

\* C14: a heat-particle spawn writes only to the lowest-indexed dead slot,
\* giving it life 100 (97 once the same update has aged it), a position on
\* the top or bottom edge of the resistor and a vertical velocity directed
\* away from the resistor; it never modifies an alive slot, and when no slot
\* is dead the request changes no slot at all and is not retried.
C14_SpawnTargetsFirstDead ==
  [][pc = "heat" =>
       LET dead == DeadSlots(hplife)
           target == IF SpawnDue /\ dead # {}
                       THEN {CHOOSE i \in dead : \A j \in dead : i <= j}
                       ELSE {}
       IN  /\ \A i \in target :
                /\ hplife'[i] = 100 - 3
                /\ hpx'[i] - (hpvx'[i] \div 3)
                     \in { x * 100 : x \in RES_X1 + 2 .. RES_X2 - 2 }
                /\ \/ /\ hpy'[i] - (hpvy'[i] \div 3) = (RES_Y1 - 1) * 100
                      /\ hpvy'[i] \in -300 .. -120
                   \/ /\ hpy'[i] - (hpvy'[i] \div 3) = (RES_Y2 + 1) * 100
                      /\ hpvy'[i] \in 120 .. 300
                /\ hpvx'[i] \in -150 .. 150
           /\ \A i \in dead \ target :
                /\ hplife'[i] = 0
                /\ <<hpx'[i], hpy'[i], hpvx'[i], hpvy'[i]>>
                     = <<hpx[i], hpy[i], hpvx[i], hpvy[i]>>
           /\ \A i \in HeatSlots \ dead :
                /\ hplife'[i] = IF hplife[i] > 3 THEN hplife[i] - 3 ELSE 0
                /\ hpvx'[i] = hpvx[i]
                /\ hpvy'[i] = hpvy[i]
                /\ hpx'[i] = hpx[i] + (hpvx[i] \div 3)
                /\ hpy'[i] = hpy[i] + (hpvy[i] \div 3)
           /\ SpawnDue => heat_spawn_ctr' = 0]_vars

\* a spawn request has just been dropped on a full pool, after spawns into
\* slots above alive ones
C14_Witness ==
  /\ pc = "flow"
  /\ heat_spawn_ctr = 0
  /\ AliveSlots = HeatSlots
  /\ \A i \in HeatSlots : hplife[i] < 100 - 3

\* heat_intensity is at or below the spawn threshold
LowHeat == RLe(HeatIntensity, Rat(15, 100))

\* a low-heat engine between two calls with at least 34 updates to come
CoolAhead ==
  active /\ LowHeat /\ pc = "ready" /\ tick + 34 <= MaxHotTick

\* no heat particle is alive
PoolEmpty == AliveSlots = {}

\* C15: while heat_intensity is at or below 0.15 no heat particle is spawned
\* and every update lowers each alive life by 3 (floored at 0); an empty
\* pool stays empty as long as the heat is low, so an engine that is always
\* at low heat never has an alive particle; and from any pool state 34
\* low-heat updates leave every slot dead.
C15_LowHeatDrainsPool ==
  /\ [][pc = "heat" /\ LowHeat =>
          \A i \in HeatSlots :
            hplife'[i] = IF hplife[i] > 3 THEN hplife[i] - 3 ELSE 0]_vars
  /\ [][LowHeat /\ PoolEmpty => PoolEmpty']_vars
  /\ CoolAhead ~> PoolEmpty

\* a pool that held particles has drained at low heat
C15_Witness ==
  /\ active
  /\ LowHeat
  /\ AliveSlots = {}
  /\ \E i \in HeatSlots : hpy[i] > (RES_Y2 + 1) * 100

\* heat_intensity is at its maximum 1.0 on an active engine
MaxHeat == active /\ HeatIntensity = RNum(1)

\* a maximum-heat run is about to start
MaxHeatStart == MaxHeat /\ pc = "ready" /\ tick = 0

\* all 12 slots are alive at once
PoolFull == AliveSlots = HeatSlots

\* the pool has filled, or the heat has been taken off its maximum
PoolFullOrCooled == PoolFull \/ ~MaxHeat

\* the number of alive particles does not exceed the capacity
PoolWithinCapacity == Cardinality(AliveSlots) <= MAX_HEAT_PARTICLES

NextIdle ==
  \/ IdleAnimation
  \/ AdvanceClock(MaxIdleTime)

SpecIdle == Init /\ [][NextIdle]_vars

\* a step made by a call of idle_animation()
IdleStep == called' = "idle_animation" /\ now' = now

\* the marker's row
IdleRow == (WIRE_Y1 + WIRE_Y2) \div 2

\* C17: the idle marker position always satisfies 0 <= idle_x < 64 and is
\* never inside the resistor span [20, 43]; every pixel idle_animation()
\* changes lies on the marker's row outside that span.
C17_IdleMarkerOutsideResistor ==
  /\ [](idle_x \in 0 .. WIDTH - 1 /\ ~(RES_X1 <= idle_x /\ idle_x <= RES_X2))
  /\ [][IdleStep =>
          \A x \in Xs : \A y \in Ys :
            bmp'[x][y] # bmp[x][y] =>
              y = IdleRow /\ ~(RES_X1 <= x /\ x <= RES_X2)]_vars

\* the marker has gone around: over the resistor and from 63 back to 0
C17_Witness ==
  /\ idle_x = 0
  /\ idle_last > 0
  /\ bmp[0][IdleRow] = 36
  /\ bmp[WIDTH - 1][IdleRow] = 0

\* C18: idle_animation() throttles itself on the clock and is independent of
\* update(): a call made less than 0.08 s after the last accepted step
\* changes neither the marker, nor a pixel, nor the timestamp; an accepted
\* call moves the marker by exactly one step (erasing the old pixel, lighting
\* the new one) and records the time; and no call changes tick, the electron
\* pool, the heat pool, the spawn counter, voltage, resistance or active.
C18_IdleThrottledAndIndependent ==
  [][IdleStep =>
       /\ now - idle_last < IDLE_INTERVAL =>
            UNCHANGED <<idle_x, idle_last, bmp>>
       /\ now - idle_last >= IDLE_INTERVAL =>
            /\ idle_x' = IF idle_x = RES_X1 - 1 THEN RES_X2 + 1
                         ELSE IF idle_x = WIDTH - 1 THEN 0
                         ELSE idle_x + 1
            /\ idle_last' = now
            /\ bmp' = [x \in Xs |-> [y \in Ys |->
                        IF y = IdleRow /\ x = idle_x' THEN 36
                        ELSE IF y = IdleRow /\ x = idle_x THEN 0
                        ELSE bmp[x][y]]]
       /\ UNCHANGED <<tick, ex, ey, ebase_y, ephase, eheat, hpx, hpy, hpvx,
                      hpvy, hplife, heat_spawn_ctr, voltage, resistance,
                      active>>]_vars

\* a throttled call follows an accepted step on an engine that has drawn
\* frames
C18_Witness ==
  /\ called = "idle_animation"
  /\ presented = 0
  /\ idle_x = 1
  /\ idle_last = now
  /\ tick > 0
  /\ \E i \in HeatSlots : hplife[i] # 0

\* ------------------------------------------------------------------------
\* Compositing
\* ------------------------------------------------------------------------
\* the static scene of the frame being drawn
StaticFrame == DrawStatic(Blank, tick, HeatIntensity)

\* the electrons drawn on pixel (x, y), and those whose trail covers it
ElectronsAt(x, y) ==
  { i \in Electrons : ex[i] \div 100 = x /\ ey[i] \div 100 = y }

TrailsAt(x, y) ==
  { i \in Electrons :
      /\ ey[i] \div 100 = y
      /\ \E t \in 1 .. TRAIL_LENGTH : (ex[i] \div 100) - t = x }

\* the alive heat particles drawn on pixel (x, y)
HeatAt(x, y) ==
  { i \in AliveSlots : hpx[i] \div 100 = x /\ hpy[i] \div 100 = y }

\* the palette indices composited onto pixel (x, y) in this frame
Composited(x, y) ==
  { BlendColor(eheat[i]) : i \in ElectronsAt(x, y) }
    \cup { CoreColor(eheat[i]) : i \in ElectronsAt(x, y) }
    \cup { TrailColor(eheat[i]) : i \in TrailsAt(x, y) }
    \cup { HeatColor(hplife[i]) : i \in HeatAt(x, y) }
    \cup { c \in {40} : FlowColumn(x, tick, Current)
                         /\ y \in {WIRE_Y1 - 1, WIRE_Y2 + 1} }

\* every pixel of a finished frame holds the maximum of its static index and
\* the indices composited onto it
FrameIsMax ==
  \A x \in Xs : \A y \in Ys :
    /\ bmp[x][y] >= StaticFrame[x][y]
    /\ \A c \in Composited(x, y) : bmp[x][y] >= c
    /\ bmp[x][y] # StaticFrame[x][y] => bmp[x][y] \in Composited(x, y)

\* no pixel index decreases while particles and indicators are composited
NoPixelDecreases ==
  pc \in {"electrons", "heat", "flow"} =>
    \A x \in Xs : \A y \in Ys : bmp'[x][y] >= bmp[x][y]

\* a pixel showing an electron shows the hottest electron on it, and a pixel
\* showing a heat particle shows the one with the most life (the brightest)
BrightestShown ==
  \A x \in Xs : \A y \in Ys :
    /\ bmp[x][y] \in 41 .. 45 =>
         \A i \in ElectronsAt(x, y) : bmp[x][y] >= BlendColor(eheat[i])
    /\ bmp[x][y] \in 31 .. 35 =>
         \E i \in HeatAt(x, y) :
           /\ bmp[x][y] = HeatColor(hplife[i])
           /\ \A j \in HeatAt(x, y) : hplife[j] <= hplife[i]

\* C19: brightness-max compositing. Every particle, trail and indicator
\* write overwrites a pixel only if the new index is strictly greater, so no
\* pixel index decreases during the electron, heat and flow stages, every
\* pixel of the finished frame holds the maximum of its static index and the
\* indices composited onto it, and a hotter or brighter particle is never
\* hidden behind a cooler one sharing its pixel.
C19_BrightnessMax ==
  /\ [][NoPixelDecreases]_vars
  /\ [](pc = "refresh" => FrameIsMax)
  /\ [](pc = "refresh" => BrightestShown)

\* ------------------------------------------------------------------------
\* Determinism of the static scene and the flow indicators
\* ------------------------------------------------------------------------
\* the static scene's index at pixel (x, y) as a function of tick and
\* heat_intensity alone: the last write among polarity markers, leads, caps,
\* body and wires
StaticPixel(x, y, t, hi) ==
  IF <<x, y>> \in PolarityPixels THEN 37
  ELSE IF /\ x \in {RES_X1 - 2, RES_X1 - 1, RES_X2 + 1, RES_X2 + 2}
          /\ y \in WIRE_Y1 .. WIRE_Y2 THEN 25
  ELSE IF /\ x \in {RES_X1 - 1, RES_X2 + 1}
          /\ y \in RES_Y1 + 1 .. RES_Y2 - 1 THEN 24
  ELSE IF x \in RES_X1 .. RES_X2 /\ y \in RES_Y1 .. RES_Y2
    THEN IF x \in {RES_X1, RES_X2} \/ y \in {RES_Y1, RES_Y2} THEN 23
         ELSE BodyIndex(t, x, y, hi)
  ELSE IF y \in WIRE_Y1 .. WIRE_Y2 THEN 36
  ELSE 0

\* the frame after the static stage depends on tick and heat_intensity only
StaticIsFunction ==
  pc = "electrons" =>
    \A x \in Xs : \A y \in Ys :
      bmp[x][y] = StaticPixel(x, y, tick, HeatIntensity)

\* the flow stage lights exactly the columns given by tick and current
FlowIsFunction ==
  pc = "flow" =>
    LET k == RInt(RAdd(RNum(2), RMul(Current, RNum(2))))
    IN  \A x \in Xs : \A y \in Ys :
          bmp'[x][y] =
            IF /\ (x + ((tick * k) % 10)) % 10 = 0
               /\ (x < RES_X1 - 2 \/ x > RES_X2 + 2)
               /\ y \in {WIRE_Y1 - 1, WIRE_Y2 + 1}
               /\ bmp[x][y] < 40
              THEN 40 ELSE bmp[x][y]

\* C20: the non-particle rendering is deterministic: the static scene
\* (wires, body with flicker, caps, leads, polarity markers) is a function of
\* (tick, x, y, heat_intensity) and the flow-indicator positions are a
\* function of (tick, current), whatever the particle pools, the random
\* choices and the idle state are.
C20_StaticAndFlowDeterministic ==
  /\ []StaticIsFunction
  /\ [][FlowIsFunction]_vars

\* a finished frame with flicker and indicators, drawn on an engine whose
\* idle marker has moved and whose heat pool holds a particle
C20_Witness ==
  /\ pc = "refresh"
  /\ idle_x # 0
  /\ AliveSlots # {}
  /\ \E x \in Xs : bmp[x][WIRE_Y1 - 1] = 40
  /\ \E x \in Xs : \E y \in Ys : bmp[x][y] = 28
  /\ \E x \in Xs : \E y \in Ys : bmp[x][y] = 29

\* ------------------------------------------------------------------------
\* Bounds of the pixel writes
\* ------------------------------------------------------------------------
\* the coordinates _draw_static writes directly, without a bounds check
StaticDirectWrites ==
  { p \in (0 .. WIDTH - 1) \X (WIRE_Y1 .. WIRE_Y2) :
      p[1] < RES_X1 \/ p[1] > RES_X2 }
    \cup ((RES_X1 .. RES_X2) \X (RES_Y1 .. RES_Y2))

\* C21: no operation ever writes a pixel outside 0 <= x < 64, 0 <= y < 32:
\* out-of-bounds particle, trail, indicator, cap, lead and marker writes are
\* ignored and never fault (the frame keeps its 64 x 32 shape and holds only
\* written indices), and the unchecked direct writes of the static scene
\* use in-bounds coordinates only.
C21_WritesInBounds ==
  /\ DOMAIN bmp = Xs
  /\ \A x \in Xs : DOMAIN bmp[x] = Ys
  /\ \A x \in Xs : \A y \in Ys : bmp[x][y] >= 0
  /\ \A p \in StaticDirectWrites : InBounds(p[1], p[2])

\* a frame has been presented with an electron left of the screen and a heat
\* particle below it
C21_Witness ==
  /\ pc = "refresh"
  /\ \E i \in Electrons : ex[i] \div 100 < 0
  /\ \E i \in AliveSlots : hpy[i] \div 100 >= HEIGHT

\* ------------------------------------------------------------------------
\* Colour ramps
\* ------------------------------------------------------------------------
\* C27: the palette index chosen for a heat particle is non-decreasing in
\* its remaining life (ascending index = brighter, brightest when freshly
\* spawned), so when alive heat particles share a pixel in one frame the
\* pixel shows the colour of the one with the most remaining life.
C27_HeatRampFavoursFresh ==
  /\ \A a \in 1 .. 100 : \A b \in 1 .. 100 :
       a <= b => HeatColor(a) <= HeatColor(b)
  /\ pc = "refresh" =>
       \A i \in AliveSlots : \A j \in AliveSlots :
         LET x == hpx[i] \div 100
             y == hpy[i] \div 100
         IN  (/\ InBounds(x, y)
              /\ hpx[j] \div 100 = x
              /\ hpy[j] \div 100 = y
              /\ hplife[j] <= hplife[i]
              /\ bmp[x][y] \in 31 .. 35
              /\ \A k \in HeatAt(x, y) : hplife[k] <= hplife[i])
               => bmp[x][y] = HeatColor(hplife[i])

\* ------------------------------------------------------------------------
\* The display the engine is given (matrix_display.py)
\* ------------------------------------------------------------------------
\* displayio.Palette(16): the palette has entries 0..15
PALETTE_SIZE == 16
\* displayio.Bitmap(64, 32, 16): a pixel holds one of 16 values
BITMAP_VALUE_COUNT == 16
\* the engine's documented palette layout has entries 0..49
ENGINE_PALETTE_SIZE == 50

\* C28: every palette index the engine leaves in the frame buffer during
\* update(), idle_animation() and stop() is a valid index of the palette
\* and bitmap matrix_display provides, and the engine's 50-entry layout is
\* the one matrix_display defines.
C28_IndicesValidForDisplay ==
  /\ \A x \in Xs : \A y \in Ys :
       /\ bmp[x][y] >= 0
       /\ bmp[x][y] < PALETTE_SIZE
       /\ bmp[x][y] < BITMAP_VALUE_COUNT
  /\ ENGINE_PALETTE_SIZE = PALETTE_SIZE

\* C29: the core colour of an electron comes from the cool bank (1..10) when
\* heat <= 50 and from the hot bank (11..20) otherwise and is non-decreasing
\* in heat within each bank; composited by brightness-max right after the
\* blended colour (41..45) the core write changes no pixel, and once an
\* electron has been drawn at an in-bounds position that pixel holds an
\* index of at least 41.
C29_CoreNeverShows ==
  /\ \A h \in 0 .. 100 :
       /\ h <= 50 => CoreColor(h) \in 1 .. 10
       /\ h > 50 => CoreColor(h) \in 11 .. 20
       /\ BlendColor(h) \in 41 .. 45
  /\ \A g \in 0 .. 100 : \A h \in 0 .. 100 :
       (g <= h /\ (g <= 50 <=> h <= 50)) => CoreColor(g) <= CoreColor(h)
  /\ \A i \in Electrons :
       LET x == ex[i] \div 100
           y == ey[i] \div 100
           blended == spb(bmp, x, y, BlendColor(eheat[i]))
       IN  spb(blended, x, y, CoreColor(eheat[i])) = blended
  /\ pc \in {"heat", "flow", "refresh"} =>
       \A i \in Electrons :
         InBounds(ex[i] \div 100, ey[i] \div 100)
           => bmp[ex[i] \div 100][ey[i] \div 100] >= 41

C29_Witness ==
  /\ pc \in {"heat", "flow", "refresh"}
  /\ \E i \in Electrons :
       /\ InBounds(ex[i] \div 100, ey[i] \div 100)
       /\ eheat[i] > 50
  /\ \E i \in Electrons :
       /\ InBounds(ex[i] \div 100, ey[i] \div 100)
       /\ eheat[i] <= 50

\* ------------------------------------------------------------------------
\* stop() and the simulation state
\* ------------------------------------------------------------------------
\* C30: stop() leaves tick, every electron, every heat-particle slot, the
\* heat spawn counter, the idle marker state, voltage and resistance
\* unchanged, and the set_params that re-activates the engine after stop()
\* leaves the simulation state unchanged as well, so the engine continues
\* from the state it had before stop().
C30_StopKeepsSimulation ==
  /\ [][Stop => UNCHANGED <<tick, elec, heat, heat_spawn_ctr, idle,
                          voltage, resistance>>]_vars
  /\ [][(called = "stop" /\ SetParamsStep) =>
        UNCHANGED <<tick, elec, heat, heat_spawn_ctr, idle>>]_vars

\* C30 witness: stop() was called on an engine that has rendered frames and
\* has spawned heat, so its state differs from the constructor's.
C30_Witness ==
  /\ called = "stop"
  /\ ~active
  /\ tick > 0
  /\ heat_spawn_ctr > 0
  /\ \E i \in Electrons : eheat[i] > 0

\* ------------------------------------------------------------------------
\* UIManager (pi-app/ui_manager.py)
\* ------------------------------------------------------------------------
\* _NAV_KEYS: the names screens are registered under and switched to
ScreenNames == {"live_lab", "ohm_triangle", "calculator"}

\* hasattr(screen, attr): every screen object has update, draw and
\* handle_event; screen "s3" has none of the optional on_enter, on_exit and
\* handle_touch
HasAttr(screen, attr) ==
  attr \in {"update", "draw", "handle_event"} \/ screen # "s3"

\* register_screen(name, screen_obj)
RegisterScreen(name, screen_obj) ==
  /\ screens' = [n \in DOMAIN screens \cup {name} |->
                   IF n = name THEN screen_obj ELSE screens[n]]
  /\ ui_calls' = <<>>
  /\ ui_raised' = "none"
  /\ UNCHANGED <<active_screen, current_screen, nav_rects>>
  /\ UNCHANGED <<engine, calculator, receiver, host>>

\* mutant: the new screen is entered before the old one is left
SwitchToEnterFirst(name) ==
  /\ IF name \notin DOMAIN screens
       THEN /\ ui_raised' = "KeyError"
            /\ ui_calls' = <<>>
            /\ UNCHANGED <<active_screen, current_screen>>
       ELSE LET leaving ==
                  IF /\ active_screen # "None"
                     /\ active_screen # name
                     /\ HasAttr(screens[active_screen], "on_exit")
                    THEN << <<screens[active_screen], "on_exit">> >>
                    ELSE <<>>
                entering ==
                  IF HasAttr(screens[name], "on_enter")
                    THEN << <<screens[name], "on_enter">> >>
                    ELSE <<>>
            IN  /\ active_screen' = name
                /\ current_screen' = name
                /\ ui_calls' = entering \o leaving
                /\ ui_raised' = "none"
  /\ UNCHANGED <<screens, nav_rects>>
  /\ UNCHANGED <<engine, calculator, receiver, host>>

\* switch_to(name) (and its alias switch_screen)
SwitchTo(name) ==
  /\ IF name \notin DOMAIN screens
       THEN /\ ui_raised' = "KeyError"
            /\ ui_calls' = <<>>
            /\ UNCHANGED <<active_screen, current_screen>>
       ELSE LET leaving ==
                  IF /\ active_screen # "None"
                     /\ active_screen # name
                     /\ HasAttr(screens[active_screen], "on_exit")
                    THEN << <<screens[active_screen], "on_exit">> >>
                    ELSE <<>>
                entering ==
                  IF HasAttr(screens[name], "on_enter")
                    THEN << <<screens[name], "on_enter">> >>
                    ELSE <<>>
            IN  /\ active_screen' = name
                /\ current_screen' = name
                /\ ui_calls' = leaving \o entering
                /\ ui_raised' = "none"
  /\ UNCHANGED <<screens, nav_rects>>
  /\ UNCHANGED <<engine, calculator, receiver, host>>

\* handle_event(event)
HandleEvent ==
  /\ ui_calls' = IF active_screen # "None"
                   THEN << <<screens[active_screen], "handle_event">> >>
                   ELSE <<>>
  /\ ui_raised' = "none"
  /\ UNCHANGED <<screens, active_screen, current_screen, nav_rects>>
  /\ UNCHANGED <<engine, calculator, receiver, host>>

\* handle_events() with one left-button tap in the queue: on the nav
\* button of `key`, or away from the nav bar when key is "None"
HandleEvents(key) ==
  IF nav_rects /\ key # "None"
    THEN IF key \in DOMAIN screens
           THEN SwitchTo(key)
           ELSE /\ ui_calls' = <<>>
                /\ ui_raised' = "none"
                /\ UNCHANGED <<screens, active_screen, current_screen,
                               nav_rects>>
                /\ UNCHANGED <<engine, calculator, receiver, host>>
    ELSE /\ ui_calls' =
              IF active_screen = "None" THEN <<>>
              ELSE IF HasAttr(screens[active_screen], "handle_touch")
                THEN << <<screens[active_screen], "handle_touch">> >>
                ELSE << <<screens[active_screen], "handle_event">> >>
         /\ ui_raised' = "none"
         /\ UNCHANGED <<screens, active_screen, current_screen, nav_rects>>
         /\ UNCHANGED <<engine, calculator, receiver, host>>

\* mutant: the update goes to the first screen of the nav bar
UpdateFirstScreen ==
  /\ ui_calls' = IF "live_lab" \in DOMAIN screens
                   THEN << <<screens["live_lab"], "update">> >>
                   ELSE <<>>
  /\ ui_raised' = "none"
  /\ UNCHANGED <<screens, active_screen, current_screen, nav_rects>>
  /\ UNCHANGED <<engine, calculator, receiver, host>>

\* update(dt)
Update ==
  /\ ui_calls' = IF active_screen # "None"
                   THEN << <<screens[active_screen], "update">> >>
                   ELSE <<>>
  /\ ui_raised' = "none"
  /\ UNCHANGED <<screens, active_screen, current_screen, nav_rects>>
  /\ UNCHANGED <<engine, calculator, receiver, host>>

\* draw() on the hardware path: the active screen, then the nav bar, whose
\* hit rectangles are rebuilt
Draw ==
  /\ ui_calls' = IF active_screen # "None"
                   THEN << <<screens[active_screen], "draw">> >>
                   ELSE <<>>
  /\ nav_rects' = TRUE
  /\ ui_raised' = "none"
  /\ UNCHANGED <<screens, active_screen, current_screen>>
  /\ UNCHANGED <<engine, calculator, receiver, host>>

NextUI ==
  \/ \E name \in ScreenNames : \E screen_obj \in {"s1", "s2", "s3"} :
       RegisterScreen(name, screen_obj)
  \/ \E name \in ScreenNames : SwitchTo(name)
  \/ HandleEvent
  \/ \E key \in ScreenNames \cup {"None"} : HandleEvents(key)
  \/ Update
  \/ Draw

SpecUI == InitRun /\ [][NextUI]_vars

\* C22: update(), draw() and handle_event() (and the taps handle_events()
\* forwards) go to the active screen only: every such call made by the
\* manager targets the object registered under the active name, so a screen
\* registered under another name, or left by switch_to, receives none; with
\* no active screen the three calls reach nobody and do not fail.
C22_DispatchOnlyToActive ==
  /\ [](\A k \in DOMAIN ui_calls :
          ui_calls[k][2] \in {"update", "draw", "handle_event", "handle_touch"}
            => /\ active_screen # "None"
               /\ ui_calls[k][1] = screens[active_screen])
  /\ [][(HandleEvent \/ Update \/ Draw) =>
          /\ ui_raised' = "none"
          /\ active_screen = "None" => ui_calls' = <<>>
          /\ active_screen # "None" => Len(ui_calls') = 1]_vars

\* C22 witness: with two different screens registered, the calculator is
\* active and has just been updated.
C22_Witness ==
  /\ {"live_lab", "calculator"} \subseteq DOMAIN screens
  /\ screens["live_lab"] # screens["calculator"]
  /\ active_screen = "calculator"
  /\ ui_calls = << <<screens["calculator"], "update">> >>

\* C23: switch_to of a name that is not registered raises KeyError, keeps
\* the active screen and current_screen and calls no on_exit and no
\* on_enter; switch_to of a registered name makes it the active screen,
\* calls on_exit of the departing screen only when that screen differs from
\* the target, and calls it before on_enter of the new screen.
C23_SwitchTo ==
  [][\A name \in ScreenNames : SwitchTo(name) =>
       IF name \notin DOMAIN screens
         THEN /\ ui_raised' = "KeyError"
              /\ ui_calls' = <<>>
              /\ UNCHANGED <<screens, active_screen, current_screen>>
         ELSE /\ ui_raised' = "none"
              /\ active_screen' = name
              /\ current_screen' = name
              /\ \A i \in DOMAIN ui_calls' : \A j \in DOMAIN ui_calls' :
                   (ui_calls'[i][2] = "on_exit" /\ ui_calls'[j][2] = "on_enter")
                     => i < j
              /\ \A i \in DOMAIN ui_calls' :
                   /\ ui_calls'[i][2] \in {"on_exit", "on_enter"}
                   /\ ui_calls'[i][2] = "on_exit" =>
                        /\ active_screen \notin {"None", name}
                        /\ ui_calls'[i][1] = screens[active_screen]
                   /\ ui_calls'[i][2] = "on_enter" =>
                        ui_calls'[i][1] = screens[name]
              /\ (/\ active_screen \notin {"None", name}
                  /\ HasAttr(screens[active_screen], "on_exit"))
                   => \E i \in DOMAIN ui_calls' : ui_calls'[i][2] = "on_exit"
              /\ HasAttr(screens[name], "on_enter")
                   => \E i \in DOMAIN ui_calls' : ui_calls'[i][2] = "on_enter"]_vars

\* C23 witness: a switch to an unregistered name has failed while a screen
\* was active.
C23_Witness ==
  /\ ui_raised = "KeyError"
  /\ active_screen # "None"
  /\ current_screen = active_screen
  /\ DOMAIN screens # ScreenNames

\* ------------------------------------------------------------------------
\* ScreenCalculator (pi-app/screen_calculator.py)
\* ------------------------------------------------------------------------
\* str.isdigit() on the characters a key event carries
IsDigit(ch) == ch \in {"0", "1", "2", "3", "4", "5", "6", "7", "8", "9"}

\* _calculate(): a result is stored when the buffer is not empty and
\* float() accepts it
Calculate ==
  calculated' = IF input_buffer \in {<<>>, <<".">>} THEN calculated ELSE TRUE

\* mutant: the keyboard's decimal point is appended like a digit
KeyDownWithPoint(key, unicode) ==
  /\ IF key = "K_BACKSPACE"
       THEN input_buffer' = SubSeq(input_buffer, 1, Len(input_buffer) - 1) /\ UNCHANGED calculated
     ELSE IF key = "K_RETURN"
       THEN Calculate /\ UNCHANGED input_buffer
     ELSE /\ input_buffer' =
               IF (IsDigit(unicode) \/ unicode = ".") /\ Len(input_buffer) < 10
                 THEN Append(input_buffer, unicode)
                 ELSE input_buffer
          /\ UNCHANGED calculated
  /\ UNCHANGED <<engine, ui, receiver, host>>

\* handle_event(event) for a KEYDOWN event with the given key and character
KeyDown(key, unicode) ==
  /\ IF key = "K_BACKSPACE"
       THEN input_buffer' = SubSeq(input_buffer, 1, Len(input_buffer) - 1) /\ UNCHANGED calculated
     ELSE IF key = "K_RETURN"
       THEN Calculate /\ UNCHANGED input_buffer
     ELSE /\ input_buffer' =
               IF IsDigit(unicode) /\ Len(input_buffer) < 10
                 THEN Append(input_buffer, unicode)
                 ELSE input_buffer
          /\ UNCHANGED calculated
  /\ UNCHANGED <<engine, ui, receiver, host>>

\* handle_touch(x, y) on the keypad button `label`, or away from every
\* button when label is "None"; _handle_keypad_label(label).  The label
\* kept for the pressed look of the button is left to the drawing code.
HandleTouch(label) ==
  /\ IF IsDigit(label)
       THEN /\ input_buffer' = IF Len(input_buffer) < 10
                                 THEN Append(input_buffer, label)
                                 ELSE input_buffer
            /\ UNCHANGED calculated
     ELSE IF label = "."
       THEN /\ input_buffer' =
                 IF (\A k \in DOMAIN input_buffer : input_buffer[k] # ".")
                      /\ Len(input_buffer) < 10
                   THEN Append(input_buffer, label)
                   ELSE input_buffer
            /\ UNCHANGED calculated
     ELSE IF label = "DEL"
       THEN input_buffer' = SubSeq(input_buffer, 1, Len(input_buffer) - 1) /\ UNCHANGED calculated
     ELSE IF label = "kOhm"
       THEN /\ input_buffer' = IF Len(input_buffer) + 3 <= 10
                                 THEN input_buffer \o <<"0", "0", "0">>
                                 ELSE input_buffer
            /\ UNCHANGED calculated
     ELSE IF label = "MOhm"
       THEN /\ input_buffer' =
                 IF Len(input_buffer) + 6 <= 10
                   THEN input_buffer \o <<"0", "0", "0", "0", "0", "0">>
                   ELSE input_buffer
            /\ UNCHANGED calculated
     ELSE IF label = "="
       THEN Calculate /\ UNCHANGED input_buffer
     ELSE UNCHANGED <<input_buffer, calculated>>
  /\ UNCHANGED <<engine, ui, receiver, host>>

\* the keys pressed: backspace, return and character keys carrying a digit,
\* a decimal point, a letter or no character
NextCalculator ==
  \/ \E key \in {"K_BACKSPACE", "K_RETURN", "other"} :
       \E unicode \in {"7", ".", "a", ""} : KeyDown(key, unicode)
  \/ \E label \in {"7", ".", "DEL", "kOhm", "MOhm", "=", "None"} :
       HandleTouch(label)

SpecCalculator == InitRun /\ [][NextCalculator]_vars

PieceBytes(piece) ==
  CASE piece = "NL" -> 1
    [] piece \in {"P1", "P2", "X"} -> 31
    [] piece = "H1" -> 16
    [] piece = "T1" -> 15
    [] piece = "J" -> 120

\* len(self._buf)
RECURSIVE ByteCount(_)
ByteCount(bytes) ==
  IF bytes = <<>> THEN 0 ELSE PieceBytes(Head(bytes)) + ByteCount(Tail(bytes))

\* _parse(line.strip()): the packet a line holds, 0 for None
Parse(line) ==
  IF line \in {<<"P1">>, <<"H1", "T1">>} THEN 1
  ELSE IF line = <<"P2">> THEN 2
  ELSE 0

\* self._buf.split(b"\n"), folded from the left: `lines` are the finished
\* entries and `cur` the entry being read
RECURSIVE Split(_, _, _)
Split(bytes, lines, cur) ==
  IF bytes = <<>> THEN Append(lines, cur)
  ELSE IF Head(bytes) = "NL" THEN Split(Tail(bytes), Append(lines, cur), <<>>)
  ELSE Split(Tail(bytes), lines, Append(cur, Head(bytes)))

\* for raw in reversed(complete): the first line that parses, from entry k
\* downwards
RECURSIVE LatestParsed(_, _)
LatestParsed(lines, k) ==
  IF k = 0 THEN 0
  ELSE IF Parse(lines[k]) # 0 THEN Parse(lines[k])
  ELSE LatestParsed(lines, k - 1)

_MAX_BUFFER == 256

\* read_packet() on the accumulated bytes: the new buffer and the result
ReadPacketResult(acc) ==
  IF ByteCount(acc) > _MAX_BUFFER THEN [buf |-> <<>>, ret |-> 0]
  ELSE IF \A k \in DOMAIN acc : acc[k] # "NL" THEN [buf |-> acc, ret |-> 0]
  ELSE LET lines == Split(acc, <<>>, <<>>)
       IN  [buf |-> lines[Len(lines)],
            ret |-> LatestParsed(lines, Len(lines) - 1)]

\* read_packet() when `arrived` is waiting at the port
ReadPacket(arrived) ==
  LET acc == rx_buf \o arrived
      res == ReadPacketResult(acc)
  IN  /\ rx_acc' = acc
      /\ rx_buf' = res.buf
      /\ rx_ret' = res.ret
      /\ last_received_time' = IF res.ret # 0 THEN now ELSE last_received_time
      /\ UNCHANGED <<engine, ui, calculator, host>>

\* what can be waiting at the port: nothing, one line, a partial line, its
\* completion, several lines, and the backlog of a slow loop (eight packets,
\* 256 bytes)
NextReceiver ==
  \E arrived \in
  { <<>>, <<"P1", "NL">>, <<"P2", "NL">>, <<"H1">>, <<"T1", "NL">>,
    <<"X", "NL">>, <<"NL">>, <<"J">>,
    <<"P1", "NL", "P2", "NL">>,
    <<"P2", "NL", "X", "NL", "H1">>,
    <<"P1", "NL", "P1", "NL", "P1", "NL", "P1", "NL", "P1", "NL",
      "P1", "NL", "P1", "NL", "P2", "NL">> } :
    ReadPacket(arrived)

SpecReceiver == InitRun /\ [][NextReceiver]_vars

\* C25: whenever the bytes accumulated at a read_packet() call contain a
\* complete newline-terminated line, the call returns the most recent valid
\* packet line (None when no line is valid), discards the earlier lines and
\* keeps exactly the bytes after the final newline as the new buffer.
C25_LatestValidLine ==
  LET NLs == { k \in DOMAIN rx_acc : rx_acc[k] = "NL" }
      Line(k) ==
        LET before == { j \in NLs : j < k }
            from == IF before = {} THEN 1
                    ELSE 1 + CHOOSE j \in before : \A i \in before : i <= j
        IN  SubSeq(rx_acc, from, k - 1)
      Valid == { k \in NLs : Parse(Line(k)) # 0 }
  IN  NLs # {} =>
        LET last == CHOOSE k \in NLs : \A i \in NLs : i <= k
        IN  /\ rx_buf = SubSeq(rx_acc, last + 1, Len(rx_acc))
            /\ IF Valid = {} THEN rx_ret = 0
               ELSE rx_ret =
                      Parse(Line(CHOOSE k \in Valid : \A i \in Valid : i <= k))

\* ------------------------------------------------------------------------
\* The firmware's main loop (portal-firmware/code.py)
\* ------------------------------------------------------------------------
\* _IDLE_TIMEOUT = 3.0 s, in hundredths of a second
IDLE_TIMEOUT == 300

\* "Main loop started."
HostStart ==
  /\ host_pc = "off"
  /\ host_pc' = "poll"
  /\ UNCHANGED <<host_now, packet, host_state, last_packet_t, invoked>>
  /\ UNCHANGED <<engine, ui, calculator, receiver>>

\* time passes between two iterations
HostClock ==
  /\ host_pc = "poll"
  /\ \E dt \in {150, 151} : now + dt <= MaxHostTime /\ now' = now + dt
  /\ UNCHANGED <<params, elec, heat, tick, heat_spawn_ctr, idle, bmp, pc,
                 presented, last_set, called>>
  /\ UNCHANGED <<ui, calculator, receiver, host>>

\* top of an iteration: now = time.monotonic();
\* packet = receiver.read_packet()
HostPoll ==
  /\ host_pc = "poll"
  /\ \E arrived \in {<<>>, <<"P1", "NL">>, <<"P2", "NL">>, <<"X", "NL">>} :
       LET res == ReadPacketResult(rx_buf \o arrived)
       IN  /\ rx_acc' = rx_buf \o arrived
           /\ rx_buf' = res.buf
           /\ rx_ret' = res.ret
           /\ last_received_time' =
                IF res.ret # 0 THEN now ELSE last_received_time
           /\ packet' = res.ret
           /\ host_pc' = IF res.ret # 0 THEN "push" ELSE "dispatch"
  /\ host_now' = now
  /\ invoked' = <<>>
  /\ UNCHANGED <<host_state, last_packet_t>>
  /\ UNCHANGED <<engine, ui, calculator>>

\* if packet is not None: the measurement is pushed to the engine; the two
\* packets carry 4700 ohm and a bad read of 0.05 ohm
HostPush ==
  /\ host_pc = "push"
  /\ LET r == IF packet = 1 THEN RNum(4700) ELSE Rat(1, 20)
     IN  SetParams(V_IN, IF RLt(r, Rat(1, 10)) THEN Rat(1, 10) ELSE r)
  /\ last_packet_t' = host_now
  /\ host_state' = "ACTIVE"
  /\ host_pc' = "dispatch"
  /\ UNCHANGED <<host_now, packet, invoked>>

\* mutant: the loop goes idle as soon as 3.0 s have passed
HostDispatchInclusive ==
  /\ host_pc = "dispatch"
  /\ IF host_state = "ACTIVE"
       THEN IF host_now - last_packet_t >= IDLE_TIMEOUT
              THEN /\ host_state' = "IDLE"
                   /\ Stop
                   /\ invoked' = Append(invoked, "stop")
                   /\ host_pc' = "poll"
              ELSE /\ \/ UpdateInactive /\ host_pc' = "poll"
                      \/ UpdateBegin(MaxHostTick) /\ host_pc' = "update"
                   /\ invoked' = Append(invoked, "update")
                   /\ UNCHANGED host_state
       ELSE /\ IdleAnimation
            /\ invoked' = Append(invoked, "idle_animation")
            /\ host_pc' = "poll"
            /\ UNCHANGED host_state
  /\ UNCHANGED <<host_now, packet, last_packet_t>>

\* the state machine: stop() on the timeout, update() while ACTIVE,
\* idle_animation() while IDLE
HostDispatch ==
  /\ host_pc = "dispatch"
  /\ IF host_state = "ACTIVE"
       THEN IF host_now - last_packet_t > IDLE_TIMEOUT
              THEN /\ host_state' = "IDLE"
                   /\ Stop
                   /\ invoked' = Append(invoked, "stop")
                   /\ host_pc' = "poll"
              ELSE /\ \/ UpdateInactive /\ host_pc' = "poll"
                      \/ UpdateBegin(MaxHostTick) /\ host_pc' = "update"
                   /\ invoked' = Append(invoked, "update")
                   /\ UNCHANGED host_state
       ELSE /\ IdleAnimation
            /\ invoked' = Append(invoked, "idle_animation")
            /\ host_pc' = "poll"
            /\ UNCHANGED host_state
  /\ UNCHANGED <<host_now, packet, last_packet_t>>

\* the rest of the update() call the iteration is waiting for
HostUpdate ==
  /\ host_pc = "update"
  /\ \/ StageStatic /\ UNCHANGED host_pc
     \/ StageElectrons(HotElectronDraws) /\ UNCHANGED host_pc
     \/ StageHeat(HotHeatDraws) /\ UNCHANGED host_pc
     \/ StageFlow /\ UNCHANGED host_pc
     \/ StageRefresh /\ host_pc' = "poll"
  /\ UNCHANGED <<host_now, packet, host_state, last_packet_t, invoked>>

NextHost ==
  \/ HostStart
  \/ HostClock
  \/ HostPoll
  \/ HostPush
  \/ HostDispatch
  \/ HostUpdate

SpecHost == InitRun /\ [][NextHost]_vars

\* C26: the loop is ACTIVE only after a packet has been received and is
\* IDLE again once more than 3.0 s have passed without one; every iteration
\* invokes exactly one of update() (ACTIVE, within the timeout), stop() (the
\* iteration that goes from ACTIVE to IDLE) and idle_animation() (IDLE); and
\* between iterations the engine's active flag is true exactly when the
\* loop is ACTIVE.
C26_HostLoop ==
  /\ [](/\ host_state = "ACTIVE" => last_received_time # -1
        /\ Len(invoked) <= 1
        /\ host_pc = "poll" =>
             /\ active <=> host_state = "ACTIVE"
             /\ host_state = "ACTIVE" =>
                  host_now - last_packet_t <= IDLE_TIMEOUT)
  /\ [][/\ (host_pc \in {"dispatch", "update"} /\ host_pc' = "poll") =>
             Len(invoked') = 1
        /\ invoked' # invoked /\ invoked' # <<>> =>
             /\ invoked = <<>>
             /\ called' = invoked'[1]
             /\ CASE invoked'[1] = "update" ->
                       /\ host_state = "ACTIVE" /\ host_state' = "ACTIVE"
                       /\ host_now - last_packet_t <= IDLE_TIMEOUT
                  [] invoked'[1] = "stop" ->
                       /\ host_state = "ACTIVE" /\ host_state' = "IDLE"
                       /\ host_now - last_packet_t > IDLE_TIMEOUT
                  [] invoked'[1] = "idle_animation" ->
                       host_state = "IDLE" /\ host_state' = "IDLE"]_vars

\* C26 witness: after rendered frames the timeout has just sent the loop
\* back to IDLE.
C26_Witness ==
  /\ host_pc = "poll"
  /\ invoked = <<"stop">>
  /\ host_state = "IDLE"
  /\ ~active
  /\ tick > 0
  /\ last_received_time # -1
====
